---- MODULE Spec2Model ----
(***************************************************************************)
(* Model of src/server.js: the POST /create-staff handler of the           *)
(* staff-provisioning backend, its module initialisation, and the two      *)
(* collaborators it calls (the "profiles" table of the datastore and the   *)
(* identity provider), as a state machine.                                 *)
(*                                                                         *)
(* A request is an async function: it runs from one await to the next      *)
(* without interruption, and requests interleave at the awaits.  Each      *)
(* action below is one such run: the collaborator's answer to the pending  *)
(* call together with the handler code up to the next call or response.    *)
(***************************************************************************)
EXTENDS Integers, Sequences, FiniteSets, TLC

\* ---------------------------------------------------------------- bounds
\* Number of requests the server receives (all may be in flight together).
NumReq == 2

Requests == 1..NumReq

\* ------------------------------------------------------- JavaScript values
\* undefined (a key that is not in an object) and null.
Absent == "<undefined>"
Null == "<null>"

\* !v for the values a JSON body field takes here.
Falsy(v) == v \in {Absent, Null, ""}

\* a ?? b
Coalesce(a, b) == IF a \in {Absent, Null} THEN b ELSE a

\* ------------------------------------------------------------ request body
\* Values a client may send for each field of the JSON body.  hotel_id is
\* not a field the handler reads; clients may send it all the same.
AdminEmails == {Absent, "root@x.com", "super@x.com", "staff@x.com", "new@x.com"}
Emails == {Absent, "", "new@x.com"}
Roles == {Absent, "staff", "admin"}
FullNames == {Absent, "Jane"}
BodyHotelIds == {Absent, "H9"}

Bodies ==
    [admin_email : AdminEmails, email : Emails, role : Roles,
     full_name : FullNames, hotel_id : BodyHotelIds]

\* --------------------------------------------------------------- datastore
\* Rows of the "profiles" table before the first request.
InitProfiles ==
    { [id |-> "a-1", email |-> "root@x.com", role |-> "admin",
       full_name |-> "Root", hotel_id |-> "H1"],
      [id |-> "a-2", email |-> "super@x.com", role |-> "super_admin",
       full_name |-> "Super", hotel_id |-> Null],
      [id |-> "a-3", email |-> "staff@x.com", role |-> "staff",
       full_name |-> "Staff", hotel_id |-> "H1"] }

VARIABLES
    env,         \* process.env: which of the two settings are present
    up,          \* TRUE while the process runs, FALSE once it has crashed
    profiles,    \* rows of the "profiles" table
    identities,  \* users of the identity provider, [id, email]
    req          \* per request: position, body, locals, collaborator calls, response

vars == <<env, up, profiles, identities, req>>

\* ------------------------------------------------------------- responses
\* A JSON response body; a key the handler does not send is Absent.
EmptyJson ==
    [error |-> Absent, detail |-> Absent, auth_user_id |-> Absent,
     success |-> Absent, user_id |-> Absent, hotel_id |-> Absent,
     message |-> Absent]

\* No response sent yet.
NoResponse == [status |-> 0, json |-> EmptyJson]

\* res.status(400).json({ error })
ValidationResponse(msg) ==
    [status |-> 400, json |-> [EmptyJson EXCEPT !.error = msg]]

\* res.status(500).json({ error: "Error verifying admin (db)", detail })
LookupErrorResponse(adminError) ==
    [status |-> 500,
     json |-> [EmptyJson EXCEPT !.error = "Error verifying admin (db)",
                                !.detail = adminError]]

\* res.status(403).json({ error })
ForbiddenResponse(msg) ==
    [status |-> 403, json |-> [EmptyJson EXCEPT !.error = msg]]

\* res.status(400).json({ error: "Failed to create auth user", detail })
AuthErrorResponse(authError) ==
    [status |-> 400,
     json |-> [EmptyJson EXCEPT !.error = "Failed to create auth user",
                                !.detail = authError]]

\* res.status(500).json({ error: "Auth user creation returned invalid
\* response", detail: authData ?? null }); the detail is kept as a tag.
InvalidAuthResponse ==
    [status |-> 500,
     json |-> [EmptyJson EXCEPT
                 !.error = "Auth user creation returned invalid response",
                 !.detail = "authData"]]

\* Variant: the insert-failure response without the created user's id.
InsertErrorResponse_NoUserId(newUserId, profileInsertError) ==
    [status |-> 500,
     json |-> [EmptyJson EXCEPT
                 !.error = "Failed to insert profile row after creating auth user",
                 !.detail = profileInsertError]]

\* res.status(500).json({ error, auth_user_id: newUserId, detail })
InsertErrorResponse(newUserId, profileInsertError) ==
    [status |-> 500,
     json |-> [EmptyJson EXCEPT
                 !.error = "Failed to insert profile row after creating auth user",
                 !.auth_user_id = newUserId,
                 !.detail = profileInsertError]]

\* Variant: the success response carries auth_user_id as well.
SuccessResponse_WithAuthUserId(newUserId, hotel_id) ==
    [status |-> 200,
     json |-> [EmptyJson EXCEPT !.success = "true",
                                !.user_id = newUserId,
                                !.auth_user_id = newUserId,
                                !.hotel_id = hotel_id,
                                !.message = "Staff created (invite sent)."]]

\* Variant: the success response without hotel_id.
SuccessResponse_NoHotelId(newUserId, hotel_id) ==
    [status |-> 200,
     json |-> [EmptyJson EXCEPT !.success = "true",
                                !.user_id = newUserId,
                                !.message = "Staff created (invite sent)."]]

\* res.status(200).json({ success: true, user_id, hotel_id, message })
SuccessResponse(newUserId, hotel_id) ==
    [status |-> 200,
     json |-> [EmptyJson EXCEPT !.success = "true",
                                !.user_id = newUserId,
                                !.hotel_id = hotel_id,
                                !.message = "Staff created (invite sent)."]]

\* catch (err): res.status(500).json({ error: "Server error", detail })
ServerErrorResponse(err) ==
    [status |-> 500,
     json |-> [EmptyJson EXCEPT !.error = "Server error", !.detail = err]]

\* ---------------------------------------------------------- request state
\* The handler's locals.  A value that is an object or null is kept as a
\* sequence of length one or zero.
NoRow ==
    [id |-> Absent, email |-> Absent, role |-> Absent, full_name |-> Absent,
     hotel_id |-> Absent]

NewRequest ==
    [pc |-> "idle",
     body |-> [admin_email |-> Absent, email |-> Absent, role |-> Absent,
               full_name |-> Absent, hotel_id |-> Absent],
     calls |-> << >>,            \* collaborator operations issued, in order
     adminData |-> << >>,
     adminError |-> Absent,
     hotel_id |-> Absent,
     authData |-> << >>,
     authError |-> Absent,
     newUserId |-> Absent,
     inserted |-> NoRow,         \* the object passed to insert()
     profileInsertError |-> Absent,
     err |-> Absent,             \* the exception caught at the boundary
     res |-> NoResponse]

\* return res.status(..).json(..)
Return(q, response) == [q EXCEPT !.pc = "done", !.res = response]

\* Variant: the exception is logged and no response is sent.
Catch_Swallow(q, e) == [q EXCEPT !.pc = "done", !.err = e]

\* catch (err) { return res.status(500).json(..) }
Catch(q, e) == Return([q EXCEPT !.err = e], ServerErrorResponse(e))

\* ------------------------------------------------- module initialisation
EnvMissing == ~env.SUPABASE_URL \/ ~env.SUPABASE_SERVICE_ROLE_KEY

\* createClient(SUPABASE_URL, SUPABASE_SERVICE_ROLE_KEY, ..) at module
\* load.  The library is not part of the repository: with both settings
\* present it returns a client; with one absent it either returns a client
\* that cannot reach the datastore or throws, which ends the process.
CreateClientOutcomes(e) ==
    IF e.SUPABASE_URL /\ e.SUPABASE_SERVICE_ROLE_KEY THEN {TRUE}
    ELSE {TRUE, FALSE}

Init ==
    /\ env \in [SUPABASE_URL : BOOLEAN, SUPABASE_SERVICE_ROLE_KEY : BOOLEAN]
    /\ up \in CreateClientOutcomes(env)
    /\ profiles = InitProfiles
    /\ identities = {}
    /\ req = [r \in Requests |-> NewRequest]

\* ------------------------------------------------------------ validation
\* Variant: validation that does not check role.
Validate_NoRoleCheck(q) ==
    IF Falsy(q.body.admin_email)
    THEN Return(q, ValidationResponse("admin_email is required"))
    ELSE IF Falsy(q.body.email)
    THEN Return(q, ValidationResponse("staff email is required"))
    ELSE [q EXCEPT !.pc = "lookup", !.calls = Append(@, "lookup")]

\* Lines 33-44: destructure the body, check the three required fields, then
\* issue the admin lookup.
Validate(q) ==
    IF Falsy(q.body.admin_email)
    THEN Return(q, ValidationResponse("admin_email is required"))
    ELSE IF Falsy(q.body.email)
    THEN Return(q, ValidationResponse("staff email is required"))
    ELSE IF Falsy(q.body.role)
    THEN Return(q, ValidationResponse("role is required (e.g. 'staff')"))
    ELSE [q EXCEPT !.pc = "lookup", !.calls = Append(@, "lookup")]

\* A POST /create-staff request arrives with body b.  Requests are numbered
\* in the order they arrive.
Receive(r, b) ==
    /\ up
    /\ req[r].pc = "idle"
    /\ \A s \in Requests : s < r => req[s].pc # "idle"
    /\ req' = [req EXCEPT ![r] = Validate([@ EXCEPT !.body = b])]
    /\ UNCHANGED <<env, up, profiles, identities>>

\* ---------------------------------------------------------- admin lookup
\* .from("profiles").select("id, hotel_id, role").eq("email", e).maybeSingle()
\* answered from the table: no row gives data null, one row gives the three
\* selected columns, several rows give an error.
MaybeSingle(rows, e) ==
    LET match == {p \in rows : p.email = e}
    IN  IF match = {} THEN [data |-> << >>, error |-> Absent]
        ELSE IF Cardinality(match) = 1
        THEN LET p == CHOOSE x \in match : TRUE
             IN  [data |-> << [id |-> p.id, hotel_id |-> p.hotel_id,
                               role |-> p.role] >>,
                  error |-> Absent]
        ELSE [data |-> << >>, error |-> "multiple rows returned"]

\* What the awaited lookup may give back: the table's answer, an error
\* object, or a rejection (thrown at the await).  A client built without
\* the URL or the key never gets the table's answer.
LookupResults(rows, e, missing) ==
    (IF missing THEN {} ELSE {[kind |-> "result", r |-> MaybeSingle(rows, e)]})
    \cup {[kind |-> "result", r |-> [data |-> << >>, error |-> "db unavailable"]],
          [kind |-> "throw", r |-> [data |-> << >>, error |-> "fetch failed"]]}

\* Variant: any profile that has a role passes.
IsAdminRole_AnyRole(role) == ~Falsy(role)

IsAdminRole(role) == role = "admin" \/ role = "super_admin"

\* Variant: the handler answers itself, without calling the provider, when
\* a user with the new email already exists.
AfterLookup_DedupByEmail(q, result) ==
    LET q1 == [q EXCEPT !.adminData = result.data, !.adminError = result.error]
    IN  IF result.error # Absent
        THEN Return(q1, LookupErrorResponse(result.error))
        ELSE IF result.data = << >>
        THEN Return(q1, ForbiddenResponse("Forbidden: Admin profile not found"))
        ELSE IF ~(result.data[1].role = "admin" \/ result.data[1].role = "super_admin")
        THEN Return(q1, ForbiddenResponse("Forbidden: Not an admin"))
        ELSE IF \E i \in identities : i.email = q.body.email
        THEN Return(q1, AuthErrorResponse("User already registered"))
        ELSE [q1 EXCEPT !.hotel_id = Coalesce(result.data[1].hotel_id, Null),
                        !.pc = "createUser",
                        !.calls = Append(@, "createUser")]

\* Variant: the data is looked at before the error, so a failed lookup is
\* answered like an unknown admin.
AfterLookup_DataFirst(q, result) ==
    LET q1 == [q EXCEPT !.adminData = result.data, !.adminError = result.error]
    IN  IF result.data = << >>
        THEN Return(q1, ForbiddenResponse("Forbidden: Admin profile not found"))
        ELSE IF result.error # Absent
        THEN Return(q1, LookupErrorResponse(result.error))
        ELSE IF ~(result.data[1].role = "admin" \/ result.data[1].role = "super_admin")
        THEN Return(q1, ForbiddenResponse("Forbidden: Not an admin"))
        ELSE [q1 EXCEPT !.hotel_id = Coalesce(result.data[1].hotel_id, Null),
                        !.pc = "createUser",
                        !.calls = Append(@, "createUser")]

\* Variant: an unknown admin is answered 401 instead of 403.
AfterLookup_NotFound401(q, result) ==
    LET q1 == [q EXCEPT !.adminData = result.data, !.adminError = result.error]
    IN  IF result.error # Absent
        THEN Return(q1, LookupErrorResponse(result.error))
        ELSE IF result.data = << >>
        THEN Return(q1, [status |-> 401,
                         json |-> [EmptyJson EXCEPT
                                     !.error = "Forbidden: Admin profile not found"]])
        ELSE IF ~IsAdminRole(result.data[1].role)
        THEN Return(q1, ForbiddenResponse("Forbidden: Not an admin"))
        ELSE [q1 EXCEPT !.hotel_id = Coalesce(result.data[1].hotel_id, Null),
                        !.pc = "createUser",
                        !.calls = Append(@, "createUser")]

\* Lines 54-71: the checks on the lookup's result, then createUser is issued.
AfterLookup(q, result) ==
    LET q1 == [q EXCEPT !.adminData = result.data, !.adminError = result.error]
    IN  IF result.error # Absent
        THEN Return(q1, LookupErrorResponse(result.error))
        ELSE IF result.data = << >>
        THEN Return(q1, ForbiddenResponse("Forbidden: Admin profile not found"))
        ELSE IF ~IsAdminRole(result.data[1].role)
        THEN Return(q1, ForbiddenResponse("Forbidden: Not an admin"))
        ELSE [q1 EXCEPT !.hotel_id = Coalesce(result.data[1].hotel_id, Null),
                        !.pc = "createUser",
                        !.calls = Append(@, "createUser")]

\* The pending admin lookup of request r completes.
LookupReturn(r) ==
    /\ up
    /\ req[r].pc = "lookup"
    /\ \E o \in LookupResults(profiles, req[r].body.admin_email, EnvMissing) :
          req' = [req EXCEPT ![r] =
                    IF o.kind = "throw" THEN Catch(@, o.r.error)
                    ELSE AfterLookup(@, o.r)]
    /\ UNCHANGED <<env, up, profiles, identities>>

\* ------------------------------------------------------- identity creation
\* The provider's identifier for its next user.
NextUserId(ids) == "u-" \o ToString(Cardinality(ids) + 1)

\* What auth.admin.createUser({ email, email_confirm: false }) may give
\* back.  "created" is the only outcome that adds a user.  The provider is
\* a black box: it may reject any request (duplicate email, quota, ..), and
\* a misbehaving one may report success without a usable identifier.
CreateUserResults(ids, missing) ==
    (IF missing THEN {}
     ELSE {[kind |-> "created",
            data |-> << [user |-> << [id |-> NextUserId(ids)] >>] >>,
            error |-> Absent],
           [kind |-> "result", data |-> << >>, error |-> Absent],
           [kind |-> "result", data |-> << [user |-> << >>] >>, error |-> Absent],
           [kind |-> "result", data |-> << [user |-> << [id |-> Absent] >>] >>,
            error |-> Absent]})
    \cup {[kind |-> "result", data |-> << [user |-> << >>] >>,
           error |-> "User already registered"],
          [kind |-> "throw", data |-> << >>, error |-> "fetch failed"]}

\* Variant: the identifier itself is not checked.
InvalidAuthData_NoIdCheck(authData) ==
    \/ authData = << >>
    \/ authData[1].user = << >>

\* !authData || !authData.user || !authData.user.id
InvalidAuthData(authData) ==
    \/ authData = << >>
    \/ authData[1].user = << >>
    \/ Falsy(authData[1].user[1].id)

\* Variant: every profile is created with role staff.
ProfileRow_StaffRole(q, newUserId) ==
    [id |-> newUserId, email |-> q.body.email, role |-> "staff",
     full_name |-> q.body.full_name, hotel_id |-> q.hotel_id]

\* Variant: hotel_id is a module-level variable, so the row carries the value
\* the request that last passed its admin check left in it.
ProfileRow_SharedHotelId(q, newUserId) ==
    LET passed == {s \in Requests : req[s].hotel_id # Absent}
        last == CHOOSE s \in passed : \A t \in passed : t <= s
    IN  [id |-> newUserId, email |-> q.body.email, role |-> q.body.role,
         full_name |-> q.body.full_name, hotel_id |-> req[last].hotel_id]

\* Variant: a hotel_id in the body takes precedence over the admin's.
ProfileRow_BodyHotelId(q, newUserId) ==
    [id |-> newUserId, email |-> q.body.email, role |-> q.body.role,
     full_name |-> q.body.full_name,
     hotel_id |-> Coalesce(q.body.hotel_id, q.hotel_id)]

\* The object passed to insert(): { id: newUserId, email, role, full_name,
\* hotel_id } with email, role and full_name from the body and hotel_id the
\* local set from the admin's profile.
ProfileRow(q, newUserId) ==
    [id |-> newUserId, email |-> q.body.email, role |-> q.body.role,
     full_name |-> q.body.full_name, hotel_id |-> q.hotel_id]

\* Variant: the shape of the data is checked before the error.
AfterCreateUser_DataFirst(q, result) ==
    LET q1 == [q EXCEPT !.authData = result.data, !.authError = result.error]
    IN  IF InvalidAuthData(result.data)
        THEN Return(q1, InvalidAuthResponse)
        ELSE IF result.error # Absent
        THEN Return(q1, AuthErrorResponse(result.error))
        ELSE LET id == result.data[1].user[1].id
             IN  [q1 EXCEPT !.newUserId = id,
                            !.inserted = [id |-> id, email |-> q.body.email,
                                          role |-> q.body.role,
                                          full_name |-> q.body.full_name,
                                          hotel_id |-> q.hotel_id],
                            !.pc = "insert",
                            !.calls = Append(@, "insert")]

\* Lines 76-101: the checks on createUser's result, then insert is issued.
AfterCreateUser(q, result) ==
    LET q1 == [q EXCEPT !.authData = result.data, !.authError = result.error]
    IN  IF result.error # Absent
        THEN Return(q1, AuthErrorResponse(result.error))
        ELSE IF InvalidAuthData(result.data)
        THEN Return(q1, InvalidAuthResponse)
        ELSE LET id == result.data[1].user[1].id
             IN  [q1 EXCEPT !.newUserId = id,
                            !.inserted = ProfileRow(q1, id),
                            !.pc = "insert",
                            !.calls = Append(@, "insert")]

\* The pending createUser call of request r completes.
CreateUserReturn(r) ==
    /\ up
    /\ req[r].pc = "createUser"
    /\ \E o \in CreateUserResults(identities, EnvMissing) :
          /\ identities' =
                IF o.kind = "created"
                THEN identities \cup {[id |-> o.data[1].user[1].id,
                                       email |-> req[r].body.email]}
                ELSE identities
          /\ req' = [req EXCEPT ![r] =
                       IF o.kind = "throw" THEN Catch(@, o.error)
                       ELSE AfterCreateUser(@, o)]
    /\ UNCHANGED <<env, up, profiles>>

\* ---------------------------------------------------------- profile insert
\* What the awaited insert may give back; only "inserted" writes the row.
InsertResults ==
    {[kind |-> "inserted", error |-> Absent],
     [kind |-> "result", error |-> "insert failed"],
     [kind |-> "throw", error |-> "fetch failed"]}

\* Variant: a failed insert is issued again.
AfterInsert_Retry(q, profileInsertError) ==
    LET q1 == [q EXCEPT !.profileInsertError = profileInsertError]
    IN  IF profileInsertError # Absent
        THEN [q EXCEPT !.calls = Append(@, "insert")]
        ELSE Return(q1, SuccessResponse(q.newUserId, q.hotel_id))

\* Variant: the success response is sent without looking at the error.
AfterInsert_IgnoreError(q, profileInsertError) ==
    Return([q EXCEPT !.profileInsertError = profileInsertError],
           SuccessResponse(q.newUserId, q.hotel_id))

\* Lines 103-121: the insert's error branch, or the success response.
AfterInsert(q, profileInsertError) ==
    LET q1 == [q EXCEPT !.profileInsertError = profileInsertError]
    IN  IF profileInsertError # Absent
        THEN Return(q1, InsertErrorResponse(q.newUserId, profileInsertError))
        ELSE Return(q1, SuccessResponse(q.newUserId, q.hotel_id))

\* Variant: a failed insert is compensated by deleting the created user.
InsertReturn_Rollback(r) ==
    /\ up
    /\ req[r].pc = "insert"
    /\ \E o \in InsertResults :
          /\ profiles' = IF o.kind = "inserted"
                         THEN profiles \cup {req[r].inserted}
                         ELSE profiles
          /\ identities' = IF o.kind = "inserted"
                           THEN identities
                           ELSE {i \in identities : i.id # req[r].newUserId}
          /\ req' = [req EXCEPT ![r] =
                       IF o.kind = "throw" THEN Catch(@, o.error)
                       ELSE AfterInsert(@, o.error)]
    /\ UNCHANGED <<env, up>>

\* The pending insert of request r completes.
InsertReturn(r) ==
    /\ up
    /\ req[r].pc = "insert"
    /\ \E o \in InsertResults :
          /\ profiles' = IF o.kind = "inserted"
                         THEN profiles \cup {req[r].inserted}
                         ELSE profiles
          /\ req' = [req EXCEPT ![r] =
                       IF o.kind = "throw" THEN Catch(@, o.error)
                       ELSE AfterInsert(@, o.error)]
    /\ UNCHANGED <<env, up, identities>>

\* ------------------------------------------------------------ specification
Next ==
    \/ \E r \in Requests, b \in Bodies : Receive(r, b)
    \/ \E r \in Requests : LookupReturn(r)
    \/ \E r \in Requests : CreateUserReturn(r)
    \/ \E r \in Requests : InsertReturn(r)

Spec == Init /\ [][Next]_vars

\* A pending collaborator call settles (resolves or rejects), and the event
\* loop then runs the continuation of the request that awaits it.
Fairness ==
    \A r \in Requests :
        /\ WF_vars(LookupReturn(r))
        /\ WF_vars(CreateUserReturn(r))
        /\ WF_vars(InsertReturn(r))

FairSpec == Spec /\ Fairness

\* ================================================================ properties
Done(r) == req[r].pc = "done"

PipelineOrder == <<"lookup", "createUser", "insert">>

\* The rows of the table that carry the identifier of request r's new user.
RowsOf(r) == {p \in profiles : p.id = req[r].newUserId}

\* Request r's lookup returned a profile (no error, not thrown).
AdminFound(r) ==
    /\ Len(req[r].calls) >= 1
    /\ req[r].adminError = Absent
    /\ req[r].adminData # << >>

\* Request r's lookup returned a profile whose role may provision.
Authorized(r) ==
    /\ AdminFound(r)
    /\ req[r].adminData[1].role \in {"admin", "super_admin"}

\* Request r's createUser call returned a user with an identifier.
IdentityCreated(r) ==
    /\ req[r].authError = Absent
    /\ req[r].authData # << >>
    /\ req[r].authData[1].user # << >>
    /\ ~Falsy(req[r].authData[1].user[1].id)
    /\ \E i \in identities : i.id = req[r].authData[1].user[1].id

\* C1: every profile row a request inserts carries the hotel_id of the admin
\* profile that request's lookup returned (null when that is null), whatever
\* hotel_id the body carries.
C1_TenantIsolation ==
    \A r \in Requests :
        \A p \in profiles \ InitProfiles :
            p.id = req[r].newUserId =>
                /\ AdminFound(r)
                /\ p.hotel_id = req[r].adminData[1].hotel_id

\* C1 witness: a body that carries hotel_id "H9", sent by an admin of hotel
\* "H1", has inserted its row.
C1_Witness ==
    \E r \in Requests :
        /\ req[r].body.hotel_id = "H9"
        /\ AdminFound(r)
        /\ req[r].adminData[1].hotel_id = "H1"
        /\ \E p \in profiles : p.id = req[r].newUserId /\ p.hotel_id = "H1"

\* C2: when createUser returned identifier u and the insert then returned an
\* error, the response is 500 and its body has auth_user_id = u.
C2_InsertErrorCarriesUserId ==
    \A r \in Requests :
        (Done(r) /\ IdentityCreated(r) /\ req[r].profileInsertError # Absent) =>
            /\ req[r].res.status = 500
            /\ req[r].res.json.auth_user_id = req[r].authData[1].user[1].id

\* C2 witness: a request answered after its insert returned an error.
C2_Witness ==
    \E r \in Requests :
        /\ Done(r)
        /\ IdentityCreated(r)
        /\ req[r].profileInsertError = "insert failed"
        /\ req[r].res.json.auth_user_id = "u-1"

\* C3: in every completed request that created an identity and wrote no
\* profile row for it, however the insert failed, the response contains the
\* identity's identifier.
C3_OrphanSurfaced ==
    \A r \in Requests :
        (Done(r) /\ IdentityCreated(r) /\ RowsOf(r) = {}) =>
            req[r].res.json.auth_user_id = req[r].authData[1].user[1].id

\* C4: with the datastore URL or the service credential absent, the process
\* is running and every answered request got 500 with a detail.
C4_MissingEnvAlways500 ==
    EnvMissing =>
        /\ up
        /\ \A r \in Requests :
              Done(r) => /\ req[r].res.status = 500
                         /\ req[r].res.json.detail # Absent

\* C5: a request with admin_email, email or role missing is answered 400 and
\* issues no collaborator operation.
C5_MissingFieldIs400 ==
    \A r \in Requests :
        (/\ req[r].pc # "idle"
         /\ \/ req[r].body.admin_email \in {Absent, Null, ""}
            \/ req[r].body.email \in {Absent, Null, ""}
            \/ req[r].body.role \in {Absent, Null, ""}) =>
            /\ Done(r)
            /\ req[r].res.status = 400
            /\ req[r].calls = << >>
            /\ req[r].newUserId = Absent
            /\ req[r].inserted = NoRow

\* C5 witness: a request with only role missing has been answered 400.
C5_Witness ==
    \E r \in Requests :
        /\ Done(r)
        /\ req[r].body.admin_email = "root@x.com"
        /\ req[r].body.email = "new@x.com"
        /\ req[r].body.role = Absent
        /\ req[r].res.status = 400

\* C6: when the lookup returned a profile with role admin or super_admin and
\* hotel_id h, createUser returned identifier u and the insert succeeded,
\* exactly the row {id: u, email, role, full_name, hotel_id: h} with the
\* body's email, role and full_name was inserted, and the response is 200
\* with success = true, user_id = u and hotel_id = h.
C6_FullSuccess ==
    \A r \in Requests :
        (/\ Done(r)
         /\ Authorized(r)
         /\ IdentityCreated(r)
         /\ req[r].calls = PipelineOrder
         /\ req[r].profileInsertError = Absent
         /\ req[r].err = Absent) =>
            LET u == req[r].authData[1].user[1].id
                h == req[r].adminData[1].hotel_id
            IN  /\ {p \in profiles : p.id = u} =
                      {[id |-> u, email |-> req[r].body.email,
                        role |-> req[r].body.role,
                        full_name |-> req[r].body.full_name,
                        hotel_id |-> h]}
                /\ req[r].res.status = 200
                /\ req[r].res.json.success = "true"
                /\ req[r].res.json.user_id = u
                /\ req[r].res.json.hotel_id = h

\* C6 witness: the scenario of the specification, answered 200.
C6_Witness ==
    \E r \in Requests :
        /\ Done(r)
        /\ req[r].body.admin_email = "root@x.com"
        /\ req[r].body.full_name = "Jane"
        /\ req[r].body.role = "staff"
        /\ req[r].res.status = 200
        /\ req[r].res.json.hotel_id = "H1"
        /\ [id |-> req[r].res.json.user_id, email |-> "new@x.com",
            role |-> "staff", full_name |-> "Jane", hotel_id |-> "H1"]
              \in profiles

\* C7: a request whose lookup found no profile for admin_email is answered
\* 403, and neither createUser nor insert is issued.
C7_UnknownAdminIs403 ==
    \A r \in Requests :
        (/\ Done(r)
         /\ Len(req[r].calls) >= 1
         /\ req[r].adminError = Absent
         /\ req[r].err = Absent
         /\ req[r].adminData = << >>) =>
            /\ req[r].res.status = 403
            /\ req[r].calls = <<"lookup">>
            /\ req[r].newUserId = Absent
            /\ req[r].inserted = NoRow

\* C7 witness: new@x.com has no profile and the request naming it as the
\* admin has been answered 403.
C7_Witness ==
    \E r \in Requests :
        /\ Done(r)
        /\ req[r].body.admin_email = "new@x.com"
        /\ ~\E p \in profiles : p.email = "new@x.com"
        /\ req[r].adminData = << >>
        /\ req[r].res.status = 403

\* C8: a request whose lookup returned a profile whose role is neither admin
\* nor super_admin is answered 403, creates no identity and inserts no row.
C8_NonAdminIs403 ==
    \A r \in Requests :
        (/\ Done(r)
         /\ AdminFound(r)
         /\ req[r].adminData[1].role \notin {"admin", "super_admin"}) =>
            /\ req[r].res.status = 403
            /\ req[r].calls = <<"lookup">>
            /\ req[r].newUserId = Absent
            /\ req[r].inserted = NoRow
            /\ ~\E i \in identities : i.id = req[r].newUserId
            /\ RowsOf(r) = {}

\* C8 witness: a request of the staff profile has been answered 403.
C8_Witness ==
    \E r \in Requests :
        /\ Done(r)
        /\ AdminFound(r)
        /\ req[r].adminData[1].role = "staff"
        /\ req[r].res.status = 403

\* C9: when the admin is authorized and createUser returns an error, the
\* response is 400 and the insert is never issued.
C9_IdentityRejectedIs400 ==
    \A r \in Requests :
        (Done(r) /\ Authorized(r) /\ req[r].authError # Absent) =>
            /\ req[r].res.status = 400
            /\ req[r].calls = <<"lookup", "createUser">>
            /\ req[r].inserted = NoRow
            /\ RowsOf(r) = {}

\* C9 witness: an authorized request answered after the provider rejected.
C9_Witness ==
    \E r \in Requests :
        /\ Done(r)
        /\ Authorized(r)
        /\ req[r].authError = "User already registered"
        /\ req[r].res.status = 400

\* C10: the operations a request issues are a prefix of lookup, createUser,
\* insert (each at most once, in this order); createUser is issued only after
\* the lookup authorized the caller and insert only after createUser returned
\* an identifier; a stage that fails ends the request with its own error.
C10_StrictPipeline ==
    \A r \in Requests :
        LET q == req[r]
            n == Len(q.calls)
        IN  /\ n <= Len(PipelineOrder)
            /\ q.calls = SubSeq(PipelineOrder, 1, n)
            /\ n >= 2 => Authorized(r)
            /\ n >= 3 => IdentityCreated(r)
            /\ q.pc \in {"lookup", "createUser", "insert"} =>
                  /\ q.calls # << >>
                  /\ q.calls[n] = q.pc
                  /\ q.res = NoResponse
                  /\ q.adminError = Absent /\ q.authError = Absent
                  /\ q.profileInsertError = Absent /\ q.err = Absent
            /\ q.adminError # Absent =>
                  Done(r) /\ n = 1 /\ q.res.status = 500
                          /\ q.res.json.detail = q.adminError
            /\ q.authError # Absent =>
                  Done(r) /\ n = 2 /\ q.res.status = 400
                          /\ q.res.json.detail = q.authError
            /\ q.profileInsertError # Absent =>
                  Done(r) /\ n = 3 /\ q.res.status = 500
                          /\ q.res.json.detail = q.profileInsertError
            /\ q.err # Absent =>
                  Done(r) /\ n >= 1 /\ q.res.status = 500
                          /\ q.res.json.detail = q.err

\* C10 witness: one request has gone through all three operations while
\* another was stopped by its createUser error.
C10_Witness ==
    \E r, s \in Requests :
        /\ Done(r) /\ req[r].calls = PipelineOrder
        /\ Done(s) /\ req[s].authError # Absent
        /\ req[s].calls = <<"lookup", "createUser">>

\* Request r has been sent a response.
Responded(r) == req[r].res # NoResponse

\* Request r has been received and awaits a collaborator.
InFlight(r) == req[r].pc \in {"lookup", "createUser", "insert"}

\* C11: every request the handler receives is eventually sent a response,
\* whatever its collaborators return or throw; a request that has ended has
\* been sent one, and a response once sent is never replaced by another.
C11_AlwaysOneResponse ==
    /\ \A r \in Requests : InFlight(r) ~> Responded(r)
    /\ [](\A r \in Requests :
             /\ req[r].pc # "idle" => (Done(r) \/ InFlight(r))
             /\ Done(r) <=> Responded(r))
    /\ [][\A r \in Requests : Responded(r) => req'[r] = req[r]]_vars

\* C11 witness: a request whose insert threw has been sent the catch-all's
\* response.
C11_Witness ==
    \E r \in Requests :
        /\ req[r].calls = PipelineOrder
        /\ req[r].err # Absent
        /\ Responded(r)
        /\ req[r].res.json.error = "Server error"

\* C12: an identity the provider has created stays in the provider in every
\* later state: no step of the handler removes or changes one, also not the
\* step in which the insert of the same request fails.
C12_IdentityNeverDeleted ==
    [][\A i \in identities : i \in identities']_vars

\* C12 witness: a request has ended with its insert failed, and the identity
\* it created is still with the provider.
C12_Witness ==
    \E r \in Requests :
        /\ Done(r)
        /\ req[r].calls = PipelineOrder
        /\ req[r].profileInsertError # Absent
        /\ \E i \in identities : i.id = req[r].newUserId
        /\ RowsOf(r) = {}

\* The requests answered 200.
Succeeded == {r \in Requests : req[r].res.status = 200}

\* C13: each 200 response with user_id u has exactly one profile row with id
\* u, rows of different successful requests are different rows, the table
\* holds one inserted row per successful request and none for any other
\* request, and no step updates or deletes a row.
C13_OneRowPerSuccess ==
    /\ [](/\ \A r \in Succeeded :
                Cardinality({p \in profiles :
                                p.id = req[r].res.json.user_id}) = 1
          /\ \A r, s \in Succeeded :
                r # s => req[r].res.json.user_id # req[s].res.json.user_id
          /\ \A r \in Requests :
                r \notin Succeeded => ~\E p \in profiles \ InitProfiles :
                                          p.id = req[r].newUserId
          /\ Cardinality(profiles \ InitProfiles) = Cardinality(Succeeded))
    /\ [][\A p \in profiles : p \in profiles']_vars

\* C13 witness: two requests with the same body have both been answered 200 and the table holds a row for each.
C13_Witness ==
    \E r, s \in Requests :
        /\ r # s
        /\ req[r].body = req[s].body
        /\ req[r].res.status = 200 /\ req[s].res.status = 200
        /\ Cardinality(profiles \ InitProfiles) = 2

\* What request r got back from its own three collaborator calls.
OwnResults(r) ==
    [adminData |-> req[r].adminData, adminError |-> req[r].adminError,
     authData |-> req[r].authData, authError |-> req[r].authError,
     profileInsertError |-> req[r].profileInsertError, err |-> req[r].err]

\* C14: in every interleaving, a step of one request leaves every other
\* request's locals and response as they were; the row a request passes to
\* insert and the user_id and hotel_id it answers are the values of its own
\* body and of its own lookup and createUser results; and two requests with
\* equal bodies (in the fields the handler reads) and equal results of their
\* own calls get equal responses.
C14_RequestsIndependent ==
    /\ [](\A r \in Requests :
             /\ req[r].inserted # NoRow =>
                   /\ Authorized(r)
                   /\ req[r].authData # << >>
                   /\ req[r].authData[1].user # << >>
                   /\ req[r].inserted =
                         [id |-> req[r].authData[1].user[1].id,
                          email |-> req[r].body.email,
                          role |-> req[r].body.role,
                          full_name |-> req[r].body.full_name,
                          hotel_id |-> req[r].adminData[1].hotel_id]
             /\ req[r].res.status = 200 =>
                   /\ req[r].res.json.user_id = req[r].inserted.id
                   /\ req[r].res.json.hotel_id = req[r].inserted.hotel_id
             /\ \A s \in Requests :
                   (/\ Done(r) /\ Done(s)
                    /\ [req[r].body EXCEPT !.hotel_id = Absent] =
                       [req[s].body EXCEPT !.hotel_id = Absent]
                    /\ OwnResults(r) = OwnResults(s)) =>
                       req[r].res = req[s].res)
    /\ [][\A r, s \in Requests :
             (r # s /\ req'[r] # req[r]) => req'[s] = req[s]]_vars

\* C14 witness: two requests of admins of different tenants interleaved (the
\* one that arrived later had its identity created first), and both rows are
\* in the table, each with its own admin's hotel_id.
C14_Witness ==
    \E r, s \in Requests :
        /\ r < s
        /\ req[r].res.status = 200 /\ req[s].res.status = 200
        /\ req[r].adminData[1].hotel_id = "H1"
        /\ req[s].adminData[1].hotel_id = Null
        /\ req[r].res.json.user_id = "u-2"
        /\ req[s].res.json.user_id = "u-1"
        /\ \E p \in profiles : p.id = "u-2" /\ p.hotel_id = "H1"
        /\ \E p \in profiles : p.id = "u-1" /\ p.hotel_id = Null

\* C15: when the admin lookup returns an error, the response is 500 with the
\* error's message as detail, and neither createUser nor insert is issued.
C15_LookupErrorIs500 ==
    \A r \in Requests :
        req[r].adminError # Absent =>
            /\ Done(r)
            /\ req[r].res.status = 500
            /\ req[r].res.json.detail = req[r].adminError
            /\ req[r].calls = <<"lookup">>
            /\ req[r].newUserId = Absent
            /\ req[r].inserted = NoRow

\* C15 witness: with the environment complete, a lookup for an existing
\* admin failed and the request has been answered 500.
C15_Witness ==
    \E r \in Requests :
        /\ ~EnvMissing
        /\ req[r].body.admin_email = "root@x.com"
        /\ req[r].adminError = "db unavailable"
        /\ req[r].res.status = 500
        /\ req[r].res.json.detail = "db unavailable"

\* Request r's createUser returned no error and no usable identifier.
NoIdentifier(r) ==
    /\ Len(req[r].calls) >= 2
    /\ req[r].pc # "createUser"
    /\ req[r].authError = Absent
    /\ \/ req[r].authData = << >>
       \/ req[r].authData[1].user = << >>
       \/ req[r].authData[1].user[1].id \in {Absent, Null, ""}

\* C16: when createUser reports success without an identifier (and did not
\* throw), the response is 500 and the insert is not issued.
C16_NoIdentifierIs500 ==
    \A r \in Requests :
        (NoIdentifier(r) /\ req[r].err = Absent) =>
            /\ Done(r)
            /\ req[r].res.status = 500
            /\ req[r].calls = <<"lookup", "createUser">>
            /\ req[r].inserted = NoRow
            /\ RowsOf(r) = {}

\* C16 witness: createUser returned a user object without id and the request
\* has been answered 500.
C16_Witness ==
    \E r \in Requests :
        /\ Done(r)
        /\ req[r].authError = Absent
        /\ req[r].authData # << >>
        /\ req[r].authData[1].user # << >>
        /\ req[r].authData[1].user[1].id = Absent
        /\ req[r].res.status = 500

\* C17: a response carries auth_user_id only when the request's identity was
\* created and its profile insert failed; it is then a 500, and no 200, 400,
\* 403 or other 500 response carries the key.
C17_AuthUserIdOnlyOnOrphan ==
    \A r \in Requests :
        req[r].res.json.auth_user_id # Absent =>
            /\ req[r].res.status = 500
            /\ IdentityCreated(r)
            /\ req[r].res.json.auth_user_id = req[r].authData[1].user[1].id
            /\ req[r].profileInsertError # Absent
            /\ RowsOf(r) = {}

\* C17 witness: one request was answered with auth_user_id after its insert
\* failed, another was answered 200 without the key.
C17_Witness ==
    \E r, s \in Requests :
        /\ req[r].res.json.auth_user_id # Absent
        /\ req[r].profileInsertError # Absent
        /\ req[s].res.status = 200
        /\ req[s].res.json.auth_user_id = Absent

\* C18: the handler does not deduplicate by email: every authorized request
\* issues its own createUser call, also when an identity with the same email
\* exists; two requests (for instance the same request sent twice) whose
\* createUser calls were both accepted have two different identities, both
\* kept; and a request whose createUser was rejected is answered 400 and
\* issues no insert.
C18_NoIdempotence ==
    \A r \in Requests :
        /\ (Authorized(r) /\ req[r].pc # "lookup") =>
              /\ Len(req[r].calls) >= 2
              /\ req[r].calls[2] = "createUser"
        /\ req[r].authError # Absent =>
              /\ req[r].res.status = 400
              /\ req[r].calls = <<"lookup", "createUser">>
        /\ \A s \in Requests :
              (r # s /\ IdentityCreated(r) /\ IdentityCreated(s)) =>
                  /\ req[r].newUserId # req[s].newUserId
                  /\ [id |-> req[r].newUserId, email |-> req[r].body.email]
                        \in identities
                  /\ [id |-> req[s].newUserId, email |-> req[s].body.email]
                        \in identities

\* C18 witness: the same request was sent twice, the provider accepted both
\* createUser calls, and it holds two identities with the same email.
C18_Witness ==
    \E r, s \in Requests :
        /\ r # s
        /\ req[r].body = req[s].body
        /\ IdentityCreated(r) /\ IdentityCreated(s)
        /\ Cardinality({i \in identities : i.email = req[r].body.email}) = 2

\* C19: every row the handler inserted has a hotel_id that is null or the
\* hotel_id of the admin's profile row its lookup returned (a row that was
\* in the table before, and still is); so no hotel_id other than null and
\* those of the initial table ever appears.
C19_TenantClosure ==
    /\ \A r \in Requests :
          \A p \in RowsOf(r) \ InitProfiles :
              \/ p.hotel_id = Null
              \/ \E a \in profiles :
                    /\ a.id = req[r].adminData[1].id
                    /\ a.id # p.id
                    /\ a.hotel_id = p.hotel_id
    /\ \A p \in profiles :
          \/ p.hotel_id = Null
          \/ \E a \in InitProfiles : a.hotel_id = p.hotel_id

\* C19 witness: a request whose admin_email is a profile created by an
\* earlier request has inserted its row, with that profile's hotel_id.
C19_Witness ==
    \E r, s \in Requests :
        /\ r # s
        /\ req[r].res.status = 200
        /\ AdminFound(s)
        /\ req[s].adminData[1].id = req[r].newUserId
        /\ req[s].res.status = 200
        /\ \E p \in profiles : p.id = req[s].newUserId /\ p.hotel_id = "H1"

\* C20: the role of an inserted row is the body's role, whatever the
\* caller's own role; and a request whose lookup returned a profile created
\* by the handler with role admin or super_admin passes the admin check (it
\* goes on to createUser).
C20_RoleUnrestricted ==
    \A r \in Requests :
        /\ \A p \in RowsOf(r) \ InitProfiles : p.role = req[r].body.role
        /\ \A s \in Requests :
              (/\ r # s
               /\ req[r].res.status = 200
               /\ req[r].body.role \in {"admin", "super_admin"}
               /\ AdminFound(s)
               /\ req[s].adminData[1].id = req[r].newUserId) =>
                  /\ req[s].adminData[1].role = req[r].body.role
                  /\ Len(req[s].calls) >= 2

\* C20 witness: a caller with role admin created a profile with role admin,
\* and a later request naming that profile as its admin was answered 200.
C20_Witness ==
    \E r, s \in Requests :
        /\ r # s
        /\ AdminFound(r)
        /\ req[r].adminData[1].role = "admin"
        /\ req[r].body.role = "admin"
        /\ req[r].res.status = 200
        /\ req[s].body.admin_email = req[r].body.email
        /\ AdminFound(s)
        /\ req[s].adminData[1].id = req[r].newUserId
        /\ req[s].res.status = 200

====
